---- MODULE Spec2Model ----
(***************************************************************************)
(* A model of the client hooks of the HR-AI-Interviewer front end:         *)
(*   - useInterview (frontend/src/hooks/useInterview.ts): the interview    *)
(*     session, its responses, result and persistence, the scripted bot,   *)
(*     and the audio recording started by startListening;                  *)
(*   - useCamera (frontend/src/hooks/useCamera.ts): the camera stream,     *)
(*     the delayed start of face detection and its 1-second timer.         *)
(*                                                                         *)
(* React state is modelled as it behaves: a setter stores the new value,   *)
(* but a callback made by useCallback reads the values of the render in    *)
(* which it was made.  `closure` holds the values of the last render; the  *)
(* action Render copies the state into it.  Handlers read `closure` and    *)
(* write the state.                                                        *)
(*                                                                         *)
(* Specifications:                                                         *)
(*   Spec        the interview session (startInterview .. completeInterview)*)
(*   SpecListen  startListening / stopListening / speak                    *)
(*   SpecCamera  the camera wrapper                                        *)
(*   SpecCheck   the camera self-test (CameraCheck) over the camera wrapper*)
(*   SpecPanel   the polling of the analytics panel (InterviewAnalytics)   *)
(*   SpecScoring the scoring of submitResponse on its own                  *)
(***************************************************************************)
EXTENDS Integers, Sequences, FiniteSets, TLC

(* -------------------------------- bounds ------------------------------ *)

\* startInterview calls made in one run
MaxSessions == 1
\* responses submitted to one session
MaxResponses == 2
\* entries of the persisted 'interviews' array
MaxInterviews == 2
\* questions in a backend reply
MaxBackendQuestions == 2
\* setTimeout callbacks and utterance-end events pending at once
MaxPending == 1
\* the highest question pointer nextQuestion is followed to
MaxAdvance == 1

(* ------------------------------- values ------------------------------- *)

\* JavaScript's null (a record, so that it compares with records)
null == [null |-> TRUE]

Last(s) == s[Len(s)]

IsPrefix(s, t) == Len(s) <= Len(t) /\ SubSeq(t, 1, Len(s)) = s

\* Math.min that gives its second argument (a mutant of Min)
MinSecond(a, b) == b

Min(a, b) == IF a < b THEN a ELSE b

\* Math.floor(a / b) for b > 0
FloorDiv(a, b) == a \div b

\* The job descriptions startInterview is called with: type as in the data
\* model (technical/behavioral), level, and whether requirements were given.
JobDescriptions ==
  { [type |-> "technical", level |-> "entry", requirements |-> "given"],
    [type |-> "behavioral", level |-> "senior", requirements |-> "none"] }

StudentInfos == { [name |-> "student", userId |-> "u1"] }

(* ------------------------ question acquisition ------------------------ *)

FallbackIds ==
  << "fallback-0", "fallback-1", "fallback-2", "fallback-3", "fallback-4", "fallback-5" >>

\* generateFallbackQuestions: six texts for either type, mapped to questions
generateFallbackQuestions(jobDescription) ==
  [ index \in 1..6 |->
      [ id |-> FallbackIds[index],
        text |-> << "fallback", jobDescription.type, index - 1 >>,
        type |-> IF jobDescription.type = "technical" THEN "technical" ELSE "behavioral",
        timeLimit |-> 120,
        difficulty |-> "medium",
        category |-> "general" ] ]

\* What the environment gives one generateQuestionsFromBackend call:
\*   storage   the saved 'jobDescription' / 'studentInfo' items of localStorage
\*   net       whether fetch resolves
\*   body      whether response.json() parses
\*   ok        response.ok
\*   kind      data.questions: an array, missing, or not an array
\*   questions the array's items: "text" (a string) or "nonString"
Reply(storage, net, body, ok, kind, questions) ==
  [ storage |-> storage, net |-> net, body |-> body, ok |-> ok,
    kind |-> kind, questions |-> questions ]

TextLists ==
  UNION { [1..n -> {"text"}] : n \in 0..MaxBackendQuestions }

Replies ==
  { Reply("valid", "ok", "json", TRUE, "array", q) : q \in TextLists }
  \cup
  { Reply("unparsable", "ok", "json", TRUE, "array", << "text" >>),
    Reply("absent", "networkError", "json", TRUE, "array", << >>),
    Reply("valid", "ok", "notJson", TRUE, "array", << >>),
    Reply("valid", "ok", "json", FALSE, "array", << "text" >>),
    Reply("valid", "ok", "json", TRUE, "missing", << >>),
    Reply("valid", "ok", "json", TRUE, "notArray", << >>),
    Reply("valid", "ok", "json", TRUE, "array", << "text", "nonString" >>) }

\* data.questions.map(...): the backend's texts as questions
BackendQuestions(jobDescription, reply) ==
  [ index \in 1..Len(reply.questions) |->
      [ id |-> << "q", index - 1 >>,
        text |-> << "backend", index - 1 >>,
        type |-> IF jobDescription.type = "technical" THEN "technical" ELSE "behavioral",
        timeLimit |-> 120,
        difficulty |-> IF jobDescription.level = "entry" THEN "easy"
                       ELSE IF jobDescription.level = "senior" THEN "hard" ELSE "medium",
        category |-> IF jobDescription.type = "technical" THEN "technical-skills" ELSE "general" ] ]

\* BackendThrows without the !response.ok check (a mutant of BackendThrows)
BackendThrowsIgnoringStatus(reply) ==
  \/ reply.storage = "unparsable"
  \/ reply.net = "networkError"
  \/ reply.body = "notJson"
  \/ reply.kind # "array"
  \/ \E i \in 1..Len(reply.questions) : reply.questions[i] # "text"

\* Whether the try block of generateQuestionsFromBackend throws, in the order
\* of its statements: JSON.parse of the saved items, fetch, response.json(),
\* the !response.ok check, data.questions.map, text.trim().
BackendThrows(reply) ==
  \/ reply.storage = "unparsable"
  \/ reply.net = "networkError"
  \/ reply.body = "notJson"
  \/ ~reply.ok
  \/ reply.kind # "array"
  \/ \E i \in 1..Len(reply.questions) : reply.questions[i] # "text"

generateQuestionsFromBackend(jobDescription, reply) ==
  IF BackendThrows(reply)
    THEN generateFallbackQuestions(jobDescription)
    ELSE BackendQuestions(jobDescription, reply)

(* ------------------------------ scoring ------------------------------- *)

\* An answer as the regular expressions and length tests of submitResponse
\* see it: its length, whether each pattern matches, and the number of
\* distinct words of four letters or more.
Answer(length, examples, quantified, keywords, uniqueWords) ==
  [ length |-> length, hasSpecificExamples |-> examples,
    hasQuantifiableResults |-> quantified, matchesRequirements |-> keywords,
    uniqueKeywords |-> uniqueWords ]

\* The arguments of a submitResponse call and the values Math.random() gives
\* it: floor(random * 20) twice, and the index of the emotional tone.
Submissions ==
  { [ answer |-> Answer(20, FALSE, FALSE, FALSE, 3), duration |-> 10,
      audioBlob |-> "undefined", r1 |-> 0, r2 |-> 0, tone |-> 1 ],
    [ answer |-> Answer(250, TRUE, TRUE, TRUE, 12), duration |-> 60,
      audioBlob |-> "blob", r1 |-> 19, r2 |-> 19, tone |-> 5 ] }

emotionalTones == << "confident", "nervous", "enthusiastic", "calm", "passionate" >>

\* The response submitResponse builds (lines 244-291)
Response(session, questionId, sub) ==
  LET a == sub.answer
      hasRelevantKeywords ==
        IF session.jobDescription.requirements = "given"
          THEN a.matchesRequirements ELSE FALSE
      confidence ==
        (sub.r1 + 70)
        + (IF a.length > 100 THEN 5 ELSE 0)
        + (IF a.length > 200 THEN 5 ELSE 0)
        + (IF a.hasSpecificExamples THEN 10 ELSE 0)
        + (IF a.hasQuantifiableResults THEN 8 ELSE 0)
        + (IF hasRelevantKeywords THEN 7 ELSE 0)
      clarity ==
        (sub.r2 + 75)
        + (IF sub.duration > 30 /\ sub.duration < 180 THEN 5 ELSE 0)
        + (IF a.uniqueKeywords > 10 THEN 5 ELSE 0)
      relevanceScore ==
        60
        + (IF a.hasSpecificExamples THEN 15 ELSE 0)
        + (IF a.hasQuantifiableResults THEN 10 ELSE 0)
        + (IF hasRelevantKeywords THEN 12 ELSE 0)
  IN  [ questionId |-> questionId,
        answer |-> a,
        audioBlob |-> sub.audioBlob,
        duration |-> sub.duration,
        confidence |-> Min(100, confidence),
        clarity |-> Min(100, clarity),
        emotionalTone |-> emotionalTones[sub.tone],
        keywords |-> Min(a.uniqueKeywords, 10),
        relevanceScore |-> Min(100, relevanceScore) ]

RECURSIVE SumOf(_, _)
\* responses.reduce((sum, r) => sum + r[field], 0)
SumOf(responses, field) ==
  IF responses = << >> THEN 0
  ELSE SumOf(SubSeq(responses, 1, Len(responses) - 1), field) + Last(responses)[field]

\* What Math.floor gives for an infinite value (division by a zero count)
Infinity == 1000 * 1000 * 1000

\* The values Math.random() gives completeInterview: floor(random * 20) for the
\* technical score of a non-technical interview, floor(random * 25) for
\* emotionalIntelligence.
RandomDraws == { [r3 |-> 0, r4 |-> 0], [r3 |-> 19, r4 |-> 24] }

\* Seconds since the interview started, as Date.now() gives them
Elapsed == { 30 }

\* The result completeInterview builds (lines 337-401).  Averages are kept as
\* sums over n; completionRate is the pair num/den.
Result(session, elapsed, draws) ==
  LET responses == session.responses
      n == Len(responses)
      q == Len(session.questions)
      sumConfidence == SumOf(responses, "confidence")
      sumClarity == SumOf(responses, "clarity")
      sumRelevance == SumOf(responses, "relevanceScore")
      technicalScore ==
        IF session.jobDescription.type = "technical"
          THEN FloorDiv(7 * sumConfidence + 3 * sumRelevance, 10 * n)
          ELSE draws.r3 + 75
      communicationScore == FloorDiv(8 * sumClarity + 2 * sumConfidence, 10 * n)
      overallScore ==
        IF q = 0 THEN Infinity
        ELSE FloorDiv((sumConfidence + sumClarity + sumRelevance) * q + 100 * n * n,
                      4 * n * q)
  IN  [ overallScore |-> overallScore,
        categoryScores |->
          [ communication |-> communicationScore,
            technical |-> technicalScore,
            confidence |-> FloorDiv(sumConfidence, n),
            clarity |-> FloorDiv(sumClarity, n),
            emotionalIntelligence |-> draws.r4 + 70 ],
        responses |-> responses,
        interviewDuration |-> elapsed,
        completionRate |-> [num |-> 100 * n, den |-> q],
        detailedAnalysis |->
          [ responseQuality |-> FloorDiv(sumRelevance, n),
            technicalAccuracy |-> technicalScore,
            communicationSkills |-> communicationScore,
            problemSolvingAbility |-> FloorDiv(8 * sumConfidence + 2 * sumRelevance, 10 * n) ] ]

(* ------------------------------- state -------------------------------- *)

VARIABLES
  \* useInterview: React state
  currentSession,        \* null or the session record
  currentQuestionIndex,
  aiBot,
  isRecording,
  \* useInterview: the values of the last render, read by the callbacks
  closure,
  \* useInterview: outside the hook
  interviews,            \* localStorage 'interviews', parsed
  pendingStarts,         \* startInterview calls awaiting the question backend
  started,               \* startInterview calls made so far
  timers,                \* texts of the pending setTimeout(() => speak(text))
  utterances,            \* utterances whose onend may still fire
  speechSupported,       \* 'speechSynthesis' in window
  ret,                   \* the last call: its name, what it returned, its input
  \* useInterview: refs and what startListening started
  mediaRecorderRef,      \* 0 (null) or the number of a recorder
  recorders,             \* the state of each MediaRecorder made, by number
  speechRecognitionRef,  \* 0 (null) or the number of a recognition
  recognizing,           \* the recognitions started and not stopped
  micRequests,           \* getUserMedia({audio}) requests not yet answered
  stopEvents,            \* recorders stopped whose onstop has not run yet
  analysisTimers,        \* pending setTimeout callbacks of onstop
  recognitionSupported,  \* 'SpeechRecognition' or 'webkitSpeechRecognition' in window
  \* useCamera: React state
  isActive,
  error,                 \* "null" or the message
  faceDetected,
  backendDetectionEnabled,
  detectionResults,      \* "null" or "data"
  \* useCamera: refs
  videoRef,              \* "null" or "video": the element the component mounted
  canvasRef,             \* "null" or "canvas"
  streamRef,             \* 0 (null) or the number of a stream
  faceDetectionRef,      \* 0 (null) or the number of an interval
  \* useCamera: outside the hook
  streams,               \* each MediaStream getUserMedia gave: "live" or "stopped"
  srcObject,             \* the video element's srcObject: 0 (null) or a stream
  onloadedmetadata,      \* the startCamera call whose promise the handler resolves, or 0
  metadataPending,       \* the element will fire loadedmetadata
  cameraCalls,           \* startCamera calls in flight, each with its await
  cameraCallsMade,
  detectTimers,          \* pending setTimeout(startFaceDetection, 1000)
  intervals,             \* the detection intervals set and not cleared
  intervalsMade,
  lastCamera,            \* the last call or timer tick of the camera hook
  \* CameraCheck: React state
  checkStatus,           \* 'checking', 'success', 'error' or 'no-camera'
  errorMessage,
  retryCount,
  \* CameraCheck: outside the component
  checkMounted,          \* the mount effect has run
  checksMade,            \* performCameraCheck calls made so far
  checkCalls,            \* performCameraCheck calls in flight, each with its await
  checkTimers,           \* pending 2-second follow-ups, each with the isActive it reads
  cameraReady,           \* the last onCameraReady call: its argument and its caller
  \* InterviewAnalytics: props and React state
  isVisible,
  sessionId,
  analyticsData,
  realTimeMetrics,
  \* InterviewAnalytics: outside the component
  panelMounted,
  pollIntervals,         \* the polling intervals set and not cleared
  pollIntervalsMade,
  pollCleanup,           \* 0 or the interval the cleanup of the last effect clears
  pollRequests,          \* analytics requests in flight
  lastPanel,             \* the last step of the panel and what it issued
  \* the scoring of submitResponse on its own
  scoreInput,            \* null or the arguments and random values of one call
  scoreOutput,           \* null or the response the call builds
  \* useCamera: the snapshot (React state, lines 5-7)
  capturedPhoto,         \* "null" or the data URL of the photo
  isCapturing,
  flashEffect,
  \* useCamera: outside the hook
  captureTimers          \* pending 200 ms timeouts of capturePhoto

interviewVars ==
  << currentSession, currentQuestionIndex, aiBot, isRecording, closure, interviews,
     pendingStarts, started, timers, utterances, speechSupported, ret >>

\* every variable of interviewVars but ret
interviewVars_but_ret ==
  << currentSession, currentQuestionIndex, aiBot, isRecording, closure, interviews,
     pendingStarts, started, timers, utterances, speechSupported >>

listenVars ==
  << mediaRecorderRef, recorders, speechRecognitionRef, recognizing, micRequests,
     stopEvents, analysisTimers, recognitionSupported >>

cameraVars ==
  << isActive, error, faceDetected, backendDetectionEnabled, detectionResults, videoRef, canvasRef, streamRef, faceDetectionRef, streams, srcObject,
     onloadedmetadata, metadataPending, cameraCalls, cameraCallsMade, detectTimers,
     intervals, intervalsMade, lastCamera >>

checkVars ==
  << checkStatus, errorMessage, retryCount, checkMounted, checksMade, checkCalls,
     checkTimers, cameraReady >>

panelVars ==
  << isVisible, sessionId, analyticsData, realTimeMetrics, panelMounted, pollIntervals,
     pollIntervalsMade, pollCleanup, pollRequests, lastPanel >>

scoreVars == << scoreInput, scoreOutput >>

captureVars == << capturedPhoto, isCapturing, flashEffect, captureTimers >>

\* what neither useInterview nor the camera's stream and detection touch
componentVars == << checkVars, panelVars, scoreVars, captureVars >>

vars == << interviewVars, listenVars, cameraVars, componentVars >>

\* The values a callback of the current render reads
Rendered ==
  [ currentSession |-> currentSession,
    currentQuestionIndex |-> currentQuestionIndex,
    isRecording |-> isRecording ]

InitInterview ==
  /\ currentSession = null
  /\ currentQuestionIndex = 0
  /\ aiBot = [ isListening |-> FALSE, isSpeaking |-> FALSE, currentEmotion |-> "neutral",
               message |-> << "hello" >>, isWaitingForResponse |-> FALSE ]
  /\ isRecording = FALSE
  /\ closure = [ currentSession |-> null, currentQuestionIndex |-> 0, isRecording |-> FALSE ]
  /\ interviews = << >>
  /\ pendingStarts = {}
  /\ started = 0
  /\ timers = << >>
  /\ utterances = 0
  /\ ret = [ op |-> "none", value |-> "undefined" ]

InitListen ==
  /\ mediaRecorderRef = 0
  /\ recorders = << >>
  /\ speechRecognitionRef = 0
  /\ recognizing = {}
  /\ micRequests = 0
  /\ stopEvents = 0
  /\ analysisTimers = 0

InitCamera ==
  /\ isActive = FALSE
  /\ error = "null"
  /\ faceDetected = FALSE
  /\ backendDetectionEnabled = TRUE
  /\ detectionResults = "null"
  /\ videoRef = "null"
  /\ canvasRef = "null"
  /\ streamRef = 0
  /\ faceDetectionRef = 0
  /\ streams = << >>
  /\ srcObject = 0
  /\ onloadedmetadata = 0
  /\ metadataPending = FALSE
  /\ cameraCalls = {}
  /\ cameraCallsMade = 0
  /\ detectTimers = 0
  /\ intervals = {}
  /\ intervalsMade = 0
  /\ lastCamera = [ op |-> "none" ]

\* The snapshot state of useCamera before any call (lines 5-7)
InitCapture ==
  /\ capturedPhoto = "null"
  /\ isCapturing = FALSE
  /\ flashEffect = FALSE
  /\ captureTimers = 0

\* CameraCheck before its mount effect (part_000 lines 12-17)
InitCheck ==
  /\ checkStatus = "checking"
  /\ errorMessage = ""
  /\ retryCount = 0
  /\ checkMounted = FALSE
  /\ checksMade = 0
  /\ checkCalls = {}
  /\ checkTimers = {}
  /\ cameraReady = [ by |-> "none" ]

\* The realTimeMetrics of the first render (InterviewAnalytics.tsx lines 22-27)
initialMetrics ==
  [ currentEngagement |-> 0, faceDetectionStatus |-> "checking", responseCount |-> 0,
    averageResponseTime |-> 0 ]

\* InterviewAnalytics before it is mounted (lines 21-27)
InitPanel ==
  /\ isVisible = FALSE
  /\ sessionId = "none"
  /\ analyticsData = << >>
  /\ realTimeMetrics = initialMetrics
  /\ panelMounted = FALSE
  /\ pollIntervals = {}
  /\ pollIntervalsMade = 0
  /\ pollCleanup = 0
  /\ pollRequests = {}
  /\ lastPanel = [ op |-> "none", issued |-> 0 ]

\* The session is followed in a browser with speech recognition
Init ==
  /\ InitInterview
  /\ InitListen
  /\ InitCamera
  /\ InitCapture
  /\ InitCheck
  /\ InitPanel
  /\ scoreInput = null
  /\ scoreOutput = null
  /\ speechSupported \in BOOLEAN
  /\ recognitionSupported = TRUE

\* Listening is followed with and without speech recognition
InitListening ==
  /\ InitInterview
  /\ InitListen
  /\ InitCamera
  /\ InitCapture
  /\ InitCheck
  /\ InitPanel
  /\ scoreInput = null
  /\ scoreOutput = null
  /\ speechSupported \in BOOLEAN
  /\ recognitionSupported \in BOOLEAN

(* ----------------------------- useInterview --------------------------- *)

\* A re-render: the callbacks are made again over the current state
Render ==
  /\ closure # Rendered
  /\ closure' = Rendered
  /\ UNCHANGED << componentVars, cameraVars, currentSession, currentQuestionIndex, aiBot, isRecording, interviews,
                  pendingStarts, started, timers, utterances, speechSupported, ret, listenVars >>

\* speak(text) that leaves isWaitingForResponse as it is (a mutant of Speak)
SpeakStillWaiting(text) ==
  IF speechSupported
    THEN /\ aiBot' = [aiBot EXCEPT !.isSpeaking = TRUE, !.message = text]
         /\ utterances' \in { 1, Min(utterances + 1, MaxPending) }
    ELSE UNCHANGED << aiBot, utterances >>

\* speak(text), lines 110-127: cancel what is being spoken, show the text,
\* speak it.  An utterance cancelled while spoken ends with an end event in
\* some browsers and with an error event in others, so its onend may or may
\* not run later.
Speak(text) ==
  IF speechSupported
    THEN /\ aiBot' = [aiBot EXCEPT !.isSpeaking = TRUE, !.message = text,
                                   !.isWaitingForResponse = FALSE]
         /\ utterances' \in { 1, Min(utterances + 1, MaxPending) }
    ELSE UNCHANGED << aiBot, utterances >>

\* utterance.onend, lines 121-123
UtteranceEnd ==
  /\ utterances > 0
  /\ utterances' = utterances - 1
  /\ aiBot' = [aiBot EXCEPT !.isSpeaking = FALSE, !.isWaitingForResponse = TRUE]
  /\ UNCHANGED << componentVars, cameraVars, currentSession, currentQuestionIndex, isRecording, closure, interviews,
                  pendingStarts, started, timers, speechSupported, ret, listenVars >>

\* A setTimeout callback of startInterview or nextQuestion runs: speak(text)
TimerFires ==
  \E i \in 1..Len(timers) :
    /\ Speak(timers[i])
    /\ timers' = SubSeq(timers, 1, i - 1) \o SubSeq(timers, i + 1, Len(timers))
    /\ UNCHANGED << componentVars, cameraVars, currentSession, currentQuestionIndex, isRecording, closure, interviews,
                    pendingStarts, started, speechSupported, ret, listenVars >>

\* startInterview up to its await (line 205): the request is in flight
StartInterview ==
  \E studentInfo \in StudentInfos, jobDescription \in JobDescriptions :
    /\ started < MaxSessions
    /\ started' = started + 1
    /\ pendingStarts' = pendingStarts \cup
         { [ call |-> started + 1, studentInfo |-> studentInfo,
             jobDescription |-> jobDescription ] }
    /\ UNCHANGED << componentVars, cameraVars, currentSession, currentQuestionIndex, aiBot, isRecording, closure,
                    interviews, timers, utterances, speechSupported, ret, listenVars >>

\* The session startInterview builds (lines 207-219); Math.random() gives each
\* call an id of its own
NewSession(call, questions) ==
  [ id |-> call.call,
    userId |-> IF call.studentInfo.userId # "" THEN call.studentInfo.userId
               ELSE "current-user",
    jobDescription |-> call.jobDescription,
    studentInfo |-> call.studentInfo,
    questions |-> questions,
    responses |-> << >>,
    result |-> null,
    status |-> "in-progress",
    duration |-> 0,
    completedAt |-> "unset" ]

\* startInterview after its await (lines 205-231): the questions arrive or the
\* fallback is taken, the session is stored, the greeting is scheduled
StartInterviewResolves ==
  \E call \in pendingStarts, reply \in Replies :
    /\ Len(timers) < MaxPending
    /\ pendingStarts' = pendingStarts \ {call}
    /\ currentSession' =
         NewSession(call, generateQuestionsFromBackend(call.jobDescription, reply))
    /\ currentQuestionIndex' = 0
    /\ timers' = Append(timers, << "greeting", call.studentInfo.name >>)
    /\ ret' = [ op |-> "startInterview", value |-> "session", reply |-> reply ]
    /\ UNCHANGED << componentVars, cameraVars, aiBot, isRecording, closure, interviews, started, utterances,
                    speechSupported, listenVars >>

\* submitResponse (lines 241-299), called with the id of the question shown
SubmitResponse ==
  \E sub \in Submissions :
    IF closure.currentSession = null
      THEN /\ ret' = [ op |-> "submitResponse", value |-> "undefined" ]
           /\ UNCHANGED << componentVars, cameraVars, currentSession, currentQuestionIndex, aiBot, isRecording, closure,
                           interviews, pendingStarts, started, timers, utterances,
                           speechSupported, listenVars >>
      ELSE LET session == closure.currentSession
               index == closure.currentQuestionIndex
               questionId ==
                 IF index + 1 \in DOMAIN session.questions
                   THEN session.questions[index + 1].id ELSE "none"
           IN  /\ Len(session.responses) < MaxResponses
               /\ currentSession' =
                    [session EXCEPT !.responses = Append(@, Response(session, questionId, sub))]
               /\ ret' = [ op |-> "submitResponse", value |-> "undefined" ]
               /\ UNCHANGED << componentVars, cameraVars, currentQuestionIndex, aiBot, isRecording, closure, interviews,
                               pendingStarts, started, timers, utterances, speechSupported, listenVars >>

\* The test of nextQuestion stopping one question early (a mutant of
\* HasNextQuestion)
HasNextQuestionButOne(session, index) ==
  session # null /\ index < Len(session.questions) - 2

\* The tests of nextQuestion (lines 302-304): a session, and a question after
\* the current one
HasNextQuestion(session, index) ==
  session # null /\ index < Len(session.questions) - 1

\* nextQuestion (lines 301-316)
NextQuestion ==
  IF HasNextQuestion(closure.currentSession, closure.currentQuestionIndex)
    THEN LET nextIndex == closure.currentQuestionIndex + 1
         IN  /\ Len(timers) < MaxPending
             /\ nextIndex <= MaxAdvance
             /\ currentQuestionIndex' = nextIndex
             /\ timers' = Append(timers, closure.currentSession.questions[nextIndex + 1].text)
             /\ ret' = [ op |-> "nextQuestion", value |-> "true" ]
             /\ UNCHANGED << componentVars, cameraVars, currentSession, aiBot, isRecording, closure, interviews,
                             pendingStarts, started, utterances, speechSupported, listenVars >>
    ELSE /\ ret' = [ op |-> "nextQuestion", value |-> "false" ]
         /\ UNCHANGED << componentVars, cameraVars, currentSession, currentQuestionIndex, aiBot, isRecording, closure,
                         interviews, pendingStarts, started, timers, utterances,
                         speechSupported, listenVars >>

\* The session stopInterview stores and returns (lines 321-326)
StoppedSession(session, elapsed) ==
  [session EXCEPT !.status = "stopped", !.duration = elapsed, !.completedAt = "set"]

\* stopInterview (lines 318-332)
StopInterview ==
  \E elapsed \in Elapsed :
    IF closure.currentSession = null
      THEN /\ ret' = [ op |-> "stopInterview", value |-> "null" ]
           /\ UNCHANGED << componentVars, cameraVars, currentSession, currentQuestionIndex, aiBot, isRecording, closure,
                           interviews, pendingStarts, started, timers, utterances,
                           speechSupported, listenVars >>
      ELSE /\ currentSession' = StoppedSession(closure.currentSession, elapsed)
           /\ Speak(<< "stopped" >>)
           /\ ret' = [ op |-> "stopInterview", value |-> "session" ]
           /\ UNCHANGED << componentVars, cameraVars, currentQuestionIndex, isRecording, closure, interviews,
                           pendingStarts, started, timers, speechSupported, listenVars >>

\* CompletedSession without the result (a mutant of CompletedSession)
CompletedSessionWithoutResult(session, result, elapsed) ==
  [session EXCEPT !.status = "completed", !.duration = elapsed, !.completedAt = "set"]

\* The session completeInterview stores and persists (lines 403-409)
CompletedSession(session, result, elapsed) ==
  [session EXCEPT !.result = result, !.status = "completed", !.duration = elapsed,
                  !.completedAt = "set"]

\* JSON.stringify of a response, parsed back: an undefined audioBlob is left
\* out, a Blob becomes the empty object
ResponseJSON(r) ==
  IF r.audioBlob = "undefined"
    THEN [ f \in DOMAIN r \ {"audioBlob"} |-> r[f] ]
    ELSE [r EXCEPT !.audioBlob = "{}"]

\* JSON.stringify of a session (line 416), parsed back (line 414)
SessionJSON(session) ==
  [session EXCEPT
     !.responses = [ i \in DOMAIN session.responses |-> ResponseJSON(session.responses[i]) ],
     !.result = IF session.result = null THEN null
                ELSE [session.result EXCEPT
                        !.responses = [ i \in DOMAIN session.result.responses |->
                                          ResponseJSON(session.result.responses[i]) ]]]

\* A result where completeInterview returns null (a mutant of NoResult)
NoResultButSome == "result"

\* What completeInterview returns without a session or without responses
\* (line 335)
NoResult == "null"

\* completeInterview (lines 334-421)
CompleteInterview ==
  \E elapsed \in Elapsed, draws \in RandomDraws :
    IF closure.currentSession = null
      THEN /\ ret' = [ op |-> "completeInterview", value |-> NoResult ]
           /\ UNCHANGED << componentVars, cameraVars, currentSession, currentQuestionIndex, aiBot, isRecording, closure,
                           interviews, pendingStarts, started, timers, utterances,
                           speechSupported, listenVars >>
      ELSE IF Len(closure.currentSession.responses) = 0
        THEN /\ ret' = [ op |-> "completeInterview", value |-> NoResult ]
             /\ UNCHANGED << componentVars, cameraVars, currentSession, currentQuestionIndex, aiBot, isRecording, closure,
                             interviews, pendingStarts, started, timers, utterances,
                             speechSupported, listenVars >>
        ELSE LET session == closure.currentSession
                 result == Result(session, elapsed, draws)
                 completedSession == CompletedSession(session, result, elapsed)
             IN  /\ Len(interviews) < MaxInterviews
                 /\ currentSession' = completedSession
                 /\ interviews' = Append(interviews, SessionJSON(completedSession))
                 /\ Speak(<< "completed", result.overallScore >>)
                 /\ ret' = [ op |-> "completeInterview", value |-> "result" ]
                 /\ UNCHANGED << componentVars, cameraVars, currentQuestionIndex, isRecording, closure, pendingStarts,
                                 started, timers, speechSupported, listenVars >>

\* getCurrentQuestion (lines 423-426) of the current render
getCurrentQuestion ==
  IF currentSession = null THEN null
  ELSE IF currentQuestionIndex + 1 \in DOMAIN currentSession.questions
    THEN currentSession.questions[currentQuestionIndex + 1]
    ELSE null

\* questionsRemaining (line 442) of the current render
questionsRemaining ==
  IF currentSession # null
    THEN Len(currentSession.questions) - currentQuestionIndex - 1 ELSE 0

\* progress (line 443) of the current render, as the fraction num/den: a
\* division by zero questions gives Infinity
progress ==
  IF currentSession # null
    THEN [ num |-> (currentQuestionIndex + 1) * 100, den |-> Len(currentSession.questions) ]
    ELSE [ num |-> 0, den |-> 1 ]

Next ==
  \/ Render
  \/ UtteranceEnd
  \/ TimerFires
  \/ StartInterview
  \/ StartInterviewResolves
  \/ SubmitResponse
  \/ NextQuestion
  \/ StopInterview
  \/ CompleteInterview

Spec == Init /\ [][Next]_vars

(* ------------------- startListening / stopListening ------------------- *)

\* recordings in flight
MaxRecorders == 2

\* The recorders started and not stopped
InFlight == { r \in DOMAIN recorders : recorders[r] = "recording" }

\* startListening up to its await (line 132): the microphone is asked for
StartListening ==
  /\ Len(recorders) + micRequests < MaxRecorders
  /\ micRequests' = micRequests + 1
  /\ ret' = [ op |-> "startListening", value |-> "pending" ]
  /\ UNCHANGED << componentVars, cameraVars, interviewVars_but_ret, mediaRecorderRef, recorders, speechRecognitionRef,
                  recognizing, stopEvents, analysisTimers, recognitionSupported >>

\* The bot of a started recording without isListening (a mutant of Listening)
ListeningUnset(bot) ==
  [bot EXCEPT !.currentEmotion = "thinking", !.isWaitingForResponse = FALSE]

\* The bot once a recording started (line 143)
Listening(bot) ==
  [bot EXCEPT !.isListening = TRUE, !.currentEmotion = "thinking",
              !.isWaitingForResponse = FALSE]

\* startListening after getUserMedia resolved (lines 133-171): a recorder is
\* made, stored in the ref and started; a recognition is started if supported
MicrophoneGranted ==
  /\ micRequests > 0
  /\ micRequests' = micRequests - 1
  /\ LET recorder == Len(recorders) + 1
     IN  /\ recorders' = Append(recorders, "recording")
         /\ mediaRecorderRef' = recorder
         /\ IF recognitionSupported
              THEN /\ recognizing' = recognizing \cup {recorder}
                   /\ speechRecognitionRef' = recorder
              ELSE UNCHANGED << recognizing, speechRecognitionRef >>
  /\ isRecording' = TRUE
  /\ aiBot' = Listening(aiBot)
  /\ ret' = [ op |-> "startListening", value |-> "started" ]
  /\ UNCHANGED << componentVars, cameraVars, currentSession, currentQuestionIndex, closure, interviews, pendingStarts,
                  started, timers, utterances, speechSupported, stopEvents, analysisTimers,
                  recognitionSupported >>

\* startListening after getUserMedia rejected (lines 172-175): an alert
MicrophoneRefused ==
  /\ micRequests > 0
  /\ micRequests' = micRequests - 1
  /\ ret' = [ op |-> "startListening", value |-> "alert" ]
  /\ UNCHANGED << componentVars, cameraVars, interviewVars_but_ret, mediaRecorderRef, recorders, speechRecognitionRef,
                  recognizing, stopEvents, analysisTimers, recognitionSupported >>

\* recognition.onresult with a final transcript (lines 153-167)
RecognitionResult ==
  /\ recognizing # {}
  /\ aiBot' = [aiBot EXCEPT !.message = << "heard" >>]
  /\ UNCHANGED << componentVars, cameraVars, currentSession, currentQuestionIndex, isRecording, closure, interviews,
                  pendingStarts, started, timers, utterances, speechSupported, ret,
                  listenVars >>

\* stopListening (lines 178-202).  MediaRecorder.stop() throws an
\* InvalidStateError on a recorder that is inactive.
StopListening ==
  IF mediaRecorderRef # 0 /\ closure.isRecording
    THEN IF recorders[mediaRecorderRef] # "recording"
      THEN /\ ret' = [ op |-> "stopListening", value |-> "throws" ]
           /\ UNCHANGED << componentVars, cameraVars, interviewVars_but_ret, listenVars >>
      ELSE /\ recorders' = [recorders EXCEPT ![mediaRecorderRef] = "inactive"]
           /\ isRecording' = FALSE
           /\ aiBot' = [aiBot EXCEPT !.isListening = FALSE, !.currentEmotion = "happy",
                                     !.isWaitingForResponse = FALSE]
           /\ IF speechRecognitionRef # 0
                THEN /\ recognizing' = recognizing \ {speechRecognitionRef}
                     /\ speechRecognitionRef' = 0
                ELSE UNCHANGED << recognizing, speechRecognitionRef >>
           /\ stopEvents' = stopEvents + 1
           /\ ret' = [ op |-> "stopListening", value |-> "stopped" ]
           /\ UNCHANGED << componentVars, cameraVars, currentSession, currentQuestionIndex, closure, interviews,
                           pendingStarts, started, timers, utterances, speechSupported,
                           mediaRecorderRef, micRequests, analysisTimers,
                           recognitionSupported >>
    ELSE /\ ret' = [ op |-> "stopListening", value |-> "undefined" ]
         /\ UNCHANGED << componentVars, cameraVars, interviewVars_but_ret, listenVars >>

\* mediaRecorder.onstop (lines 189-200): the analysis message is scheduled
RecorderStopped ==
  /\ stopEvents > 0
  /\ stopEvents' = stopEvents - 1
  /\ analysisTimers' = analysisTimers + 1
  /\ UNCHANGED << componentVars, cameraVars, interviewVars, mediaRecorderRef, recorders, speechRecognitionRef,
                  recognizing, micRequests, recognitionSupported >>

\* The setTimeout callback of onstop (lines 193-199)
AnalysisTimerFires ==
  /\ analysisTimers > 0
  /\ analysisTimers' = analysisTimers - 1
  /\ aiBot' = [aiBot EXCEPT !.message = << "analyzing" >>, !.currentEmotion = "happy"]
  /\ UNCHANGED << componentVars, cameraVars, currentSession, currentQuestionIndex, isRecording, closure, interviews,
                  pendingStarts, started, timers, utterances, speechSupported, ret,
                  mediaRecorderRef, recorders, speechRecognitionRef, recognizing,
                  micRequests, stopEvents, recognitionSupported >>

\* speak(text) called by the component
SpeakCalled ==
  /\ Speak(<< "spoken" >>)
  /\ ret' = [ op |-> "speak", value |-> "undefined" ]
  /\ UNCHANGED << componentVars, cameraVars, currentSession, currentQuestionIndex, isRecording, closure, interviews,
                  pendingStarts, started, timers, speechSupported, listenVars >>

NextListening ==
  \/ Render
  \/ UtteranceEnd
  \/ SpeakCalled
  \/ StartListening
  \/ MicrophoneGranted
  \/ MicrophoneRefused
  \/ RecognitionResult
  \/ StopListening
  \/ RecorderStopped
  \/ AnalysisTimerFires

SpecListen == InitListening /\ [][NextListening]_vars

(* ------------------------------ useCamera ----------------------------- *)

\* startCamera calls made in one run
MaxCameraCalls == 2

\* capturePhoto timeouts pending at once
MaxCaptureTimers == 2

hookVars == << interviewVars, listenVars >>

\* startCamera is made once (useCallback with no dependencies, line 89), so
\* the startFaceDetection, detectFace and performBackendDetection it reaches
\* are those of the first render and read the state of that render: the
\* initial values of isActive (line 4) and backendDetectionEnabled (line 12).
firstRender == [ isActive |-> FALSE, backendDetectionEnabled |-> TRUE ]

CameraErrorNames ==
  { "NotAllowedError", "NotFoundError", "NotReadableError", "OverconstrainedError",
    "AbortError" }

\* The text startCamera's catch block adds for the cause (lines 74-84)
CameraErrorText(name) ==
  IF name = "NotAllowedError"
    THEN "Please allow camera permissions in your browser settings."
  ELSE IF name = "NotFoundError"
    THEN "No camera found. Please connect a camera and try again."
  ELSE IF name = "NotReadableError"
    THEN "Camera is being used by another application."
  ELSE IF name = "OverconstrainedError"
    THEN "Camera does not support the required settings."
  ELSE "Please check your camera settings and try again."

\* The message without its opening words
CameraErrorMessageBare(name) == CameraErrorText(name)

\* The message startCamera builds in its catch block (lines 72-84)
CameraErrorMessage(name) == "Unable to access camera. " \o CameraErrorText(name)

\* What a detection tick finds: whether a frame can be drawn (a 2D context and
\* a video of non-zero size), the remote endpoint's answer, and the frame's
\* pixels with those of skin tone among them.
TickEnvs ==
  { [ frame |-> TRUE, backend |-> "faces", skinPixels |-> 2, totalPixels |-> 100 ],
    [ frame |-> TRUE, backend |-> "noFaces", skinPixels |-> 3, totalPixels |-> 100 ],
    [ frame |-> TRUE, backend |-> "failure", skinPixels |-> 3, totalPixels |-> 100 ],
    [ frame |-> FALSE, backend |-> "failure", skinPixels |-> 0, totalPixels |-> 100 ] }

\* skinRatio > 0.02 (lines 204-205)
FacePresent(env) == 100 * env.skinPixels > 2 * env.totalPixels

\* performClientSideDetection (lines 171-217) on the hook state `st`
performClientSideDetection(st, env) ==
  IF ~env.frame THEN st
  ELSE [st EXCEPT !.faceDetected = FacePresent(env), !.did = "client"]

\* performBackendDetection (lines 114-149) as made in the render with values
\* `cl`: the hook state after it, and whether it returned data
performBackendDetection(cl, st, env) ==
  IF videoRef = "null" \/ canvasRef = "null" \/ ~cl.isActive \/ ~env.frame
    THEN [ st |-> st, data |-> FALSE ]
  ELSE IF env.backend = "failure"
    THEN [ st |-> [st EXCEPT !.backendDetectionEnabled = FALSE, !.did = "backend"],
           data |-> FALSE ]
  ELSE [ st |-> [st EXCEPT !.detectionResults = "data",
                           !.faceDetected = (env.backend = "faces"),
                           !.did = "backend"],
         data |-> TRUE ]

\* detectFace (lines 155-169) as made in the render with values `cl`
detectFace(cl, st, env) ==
  IF videoRef = "null" \/ canvasRef = "null" \/ ~cl.isActive THEN st
  ELSE IF cl.backendDetectionEnabled
    THEN LET result == performBackendDetection(cl, st, env)
         IN  IF ~result.data
               THEN LET after == performClientSideDetection(result.st, env)
                    IN  IF result.st.did = "backend" /\ after.did = "client"
                          THEN [after EXCEPT !.did = "backend, client"] ELSE after
               ELSE result.st
    ELSE performClientSideDetection(st, env)

\* The component mounts the video and canvas elements (the consumer renders
\* both together and hands them videoRef and canvasRef)
MountElements ==
  /\ videoRef = "null"
  /\ videoRef' = "video"
  /\ canvasRef' = "canvas"
  /\ srcObject' = 0
  /\ onloadedmetadata' = 0
  /\ metadataPending' = FALSE
  /\ UNCHANGED << componentVars, hookVars, isActive, error, faceDetected, backendDetectionEnabled,
                  detectionResults, streamRef, faceDetectionRef, streams, cameraCalls,
                  cameraCallsMade, detectTimers, intervals, intervalsMade, lastCamera >>

\* The component unmounts them: the refs are null again, the element is gone
UnmountElements ==
  /\ videoRef = "video"
  /\ videoRef' = "null"
  /\ canvasRef' = "null"
  /\ srcObject' = 0
  /\ onloadedmetadata' = 0
  /\ metadataPending' = FALSE
  /\ UNCHANGED << componentVars, hookVars, isActive, error, faceDetected, backendDetectionEnabled,
                  detectionResults, streamRef, faceDetectionRef, streams, cameraCalls,
                  cameraCallsMade, detectTimers, intervals, intervalsMade, lastCamera >>

\* startCamera up to its first await (lines 20-35), as any caller runs it
startCamera ==
  /\ cameraCallsMade' = cameraCallsMade + 1
  /\ error' = "null"
  /\ cameraCalls' = cameraCalls \cup
       { [ call |-> cameraCallsMade + 1, await |-> "getUserMedia" ] }
  /\ lastCamera' = [ op |-> "startCamera" ]
  /\ UNCHANGED << isActive, faceDetected, backendDetectionEnabled,
                  detectionResults, videoRef, canvasRef, streamRef, faceDetectionRef,
                  streams, srcObject, onloadedmetadata, metadataPending, detectTimers,
                  intervals, intervalsMade >>

\* A startCamera call by a consumer of the hook
StartCamera ==
  /\ cameraCallsMade < MaxCameraCalls
  /\ startCamera
  /\ UNCHANGED << componentVars, hookVars >>

\* startCamera after getUserMedia resolved (lines 35-63): with a video element
\* the stream is shown and kept in streamRef and the call waits for the
\* metadata; without one the call ends and the stream is kept nowhere
CameraGranted ==
  \E c \in cameraCalls :
    /\ c.await = "getUserMedia"
    /\ streams' = Append(streams, "live")
    /\ IF videoRef # "null"
         THEN /\ srcObject' = Len(streams) + 1
              /\ streamRef' = Len(streams) + 1
              /\ onloadedmetadata' = c.call
              /\ metadataPending' = TRUE
              /\ cameraCalls' = (cameraCalls \ {c}) \cup {[c EXCEPT !.await = "metadata"]}
         ELSE /\ cameraCalls' = cameraCalls \ {c}
              /\ UNCHANGED << srcObject, streamRef, onloadedmetadata, metadataPending >>
    /\ UNCHANGED << componentVars, hookVars, isActive, error, faceDetected, backendDetectionEnabled,
                    detectionResults, videoRef, canvasRef, faceDetectionRef,
                    cameraCallsMade, detectTimers, intervals, intervalsMade, lastCamera >>

\* startCamera after getUserMedia rejected (lines 70-88)
CameraRefused ==
  \E c \in cameraCalls, name \in CameraErrorNames :
    /\ c.await = "getUserMedia"
    /\ error' = CameraErrorMessage(name)
    /\ cameraCalls' = cameraCalls \ {c}
    /\ lastCamera' = [ op |-> "startCamera rejected", name |-> name,
                       message |-> CameraErrorMessage(name) ]
    /\ UNCHANGED << componentVars, hookVars, isActive, faceDetected, backendDetectionEnabled,
                    detectionResults, videoRef, canvasRef, streamRef, faceDetectionRef,
                    streams, srcObject, onloadedmetadata, metadataPending,
                    cameraCallsMade, detectTimers, intervals, intervalsMade >>

\* The call continues after its promise resolved (lines 65-68): the start of
\* face detection is scheduled and the call ends
PromiseResolved(call) ==
  IF \E c \in cameraCalls : c.call = call /\ c.await = "metadata"
    THEN /\ cameraCalls' = { c \in cameraCalls : c.call # call }
         /\ detectTimers' = detectTimers + 1
    ELSE UNCHANGED << cameraCalls, detectTimers >>

\* video.onloadedmetadata (lines 44-56): play(), whose outcome either way
\* sets isActive and resolves the promise of the call that set the handler
LoadedMetadata ==
  /\ metadataPending
  /\ videoRef # "null"
  /\ metadataPending' = FALSE
  /\ isActive' = TRUE
  /\ PromiseResolved(onloadedmetadata)
  /\ UNCHANGED << componentVars, hookVars, error, faceDetected, backendDetectionEnabled, detectionResults,
                  videoRef, canvasRef, streamRef, faceDetectionRef, streams, srcObject,
                  onloadedmetadata, cameraCallsMade, intervals, intervalsMade, lastCamera >>

\* The fallback timeout of the promise (lines 59-61)
MetadataTimeout ==
  \E c \in cameraCalls :
    /\ c.await = "metadata"
    /\ PromiseResolved(c.call)
    /\ UNCHANGED << componentVars, hookVars, isActive, error, faceDetected, backendDetectionEnabled,
                    detectionResults, videoRef, canvasRef, streamRef, faceDetectionRef,
                    streams, srcObject, onloadedmetadata, metadataPending,
                    cameraCallsMade, intervals, intervalsMade, lastCamera >>

\* The 1-second timeout runs startFaceDetection (lines 151-153, 219-220): with
\* both elements it sets an interval and stores it over the ref
DetectTimerFires ==
  /\ detectTimers > 0
  /\ detectTimers' = detectTimers - 1
  /\ IF videoRef # "null" /\ canvasRef # "null"
       THEN /\ intervalsMade' = intervalsMade + 1
            /\ intervals' = intervals \cup {intervalsMade + 1}
            /\ faceDetectionRef' = intervalsMade + 1
       ELSE UNCHANGED << intervalsMade, intervals, faceDetectionRef >>
  /\ UNCHANGED << componentVars, hookVars, isActive, error, faceDetected, backendDetectionEnabled,
                  detectionResults, videoRef, canvasRef, streamRef, streams, srcObject,
                  onloadedmetadata, metadataPending, cameraCalls, cameraCallsMade,
                  lastCamera >>

\* A tick of a detection interval: detectFace of the first render
DetectionTick ==
  \E i \in intervals, env \in TickEnvs :
    LET st == [ faceDetected |-> faceDetected,
                backendDetectionEnabled |-> backendDetectionEnabled,
                detectionResults |-> detectionResults,
                did |-> "nothing" ]
        after == detectFace(firstRender, st, env)
    IN  /\ faceDetected' = after.faceDetected
        /\ backendDetectionEnabled' = after.backendDetectionEnabled
        /\ detectionResults' = after.detectionResults
        /\ lastCamera' =
             [ op |-> "tick", env |-> env, did |-> after.did,
               active |-> (isActive /\ videoRef # "null" /\ canvasRef # "null"),
               enabled |-> backendDetectionEnabled ]
        /\ UNCHANGED << componentVars, hookVars, isActive, error, videoRef, canvasRef, streamRef,
                        faceDetectionRef, streams, srcObject, onloadedmetadata,
                        metadataPending, cameraCalls, cameraCallsMade, detectTimers,
                        intervals, intervalsMade >>

\* stopCamera (lines 91-111)
StopCamera ==
  /\ streams' = IF streamRef # 0 THEN [streams EXCEPT ![streamRef] = "stopped"] ELSE streams
  /\ streamRef' = 0
  /\ srcObject' = IF videoRef # "null" THEN 0 ELSE srcObject
  /\ metadataPending' = IF videoRef # "null" THEN FALSE ELSE metadataPending
  /\ intervals' = intervals \ {faceDetectionRef}
  /\ faceDetectionRef' = 0
  /\ isActive' = FALSE
  /\ faceDetected' = FALSE
  /\ error' = "null"
  /\ lastCamera' = [ op |-> "stopCamera" ]
  /\ UNCHANGED << componentVars, hookVars, backendDetectionEnabled, detectionResults, videoRef, canvasRef,
                  onloadedmetadata, cameraCalls, cameraCallsMade, detectTimers,
                  intervalsMade >>

NextCamera ==
  \/ MountElements
  \/ UnmountElements
  \/ StartCamera
  \/ CameraGranted
  \/ CameraRefused
  \/ LoadedMetadata
  \/ MetadataTimeout
  \/ DetectTimerFires
  \/ DetectionTick
  \/ StopCamera

SpecCamera == Init /\ [][NextCamera]_vars

(* ------------------------ useCamera: the snapshot --------------------- *)

\* capturePhoto (lines 223-255) as made in the current render (it is made
\* again whenever isActive changes, line 255); `context` is whether the canvas
\* gives a 2D context. The 200 ms timeout that resets the two flags is set
\* inside the `if (context)` block.
CapturePhoto ==
  \E context \in BOOLEAN :
    /\ captureTimers < MaxCaptureTimers
    /\ IF videoRef = "null" \/ canvasRef = "null" \/ ~isActive
         THEN UNCHANGED captureVars
         ELSE /\ isCapturing' = TRUE
              /\ flashEffect' = TRUE
              /\ IF context
                   THEN /\ capturedPhoto' = "photo"
                        /\ captureTimers' = captureTimers + 1
                   ELSE UNCHANGED << capturedPhoto, captureTimers >>
    /\ UNCHANGED << checkVars, panelVars, scoreVars, cameraVars, hookVars >>

\* The 200 ms timeout of capturePhoto (lines 249-252)
CaptureTimerFires ==
  /\ captureTimers > 0
  /\ captureTimers' = captureTimers - 1
  /\ flashEffect' = FALSE
  /\ isCapturing' = FALSE
  /\ UNCHANGED << capturedPhoto, checkVars, panelVars, scoreVars, cameraVars, hookVars >>

\* retakePhoto (lines 257-259)
RetakePhoto ==
  /\ capturedPhoto' = "null"
  /\ UNCHANGED << isCapturing, flashEffect, captureTimers, checkVars, panelVars, scoreVars,
                  cameraVars, hookVars >>

NextCapture ==
  \/ NextCamera
  \/ CapturePhoto
  \/ CaptureTimerFires
  \/ RetakePhoto

\* Every timeout that was set fires
SpecCapture == Init /\ [][NextCapture]_vars /\ WF_vars(CaptureTimerFires)

(* ----------------------------- CameraCheck ---------------------------- *)

\* handleRetry clicks followed in one run
MaxRetries == 4

\* CameraCheck renders the video and canvas elements only while the hook's
\* isActive is true (part_000 line 343), and startCamera sets isActive only
\* through the handler it puts on a mounted video element (useCamera.ts lines
\* 37-56).  The component's own handlers are followed with the re-render that
\* ends each of them, so the buttons offered are those of the current state.

\* What navigator.mediaDevices.enumerateDevices() gives performCameraCheck:
\* a video input, none, or a rejection (no mediaDevices in this context)
DeviceAnswers == { "camera", "noCamera", "unavailable" }

\* The message of the catch block of performCameraCheck (lines 246-254)
CheckErrorMessage(name) ==
  IF name = "NotAllowedError"
    THEN "Camera access was denied. Please allow camera permissions and try again."
  ELSE IF name = "NotFoundError"
    THEN "No camera found. Please connect a camera and try again."
  ELSE IF name = "NotReadableError"
    THEN "Camera is being used by another application. Please close other video apps and try again."
  ELSE "Unable to access camera. Please check your camera settings and try again."

\* onCameraReady(value), called by `caller`
onCameraReady(value, caller) ==
  cameraReady' = [ by |-> caller, value |-> value ]

\* The buttons in the error state whatever the retry count (a mutant of
\* ButtonsOffered)
ButtonsOfferedAtOnce ==
  IF checkStatus = "success" THEN { "continue" }
  ELSE IF checkStatus = "error" THEN { "bypass", "reschedule", "retry" }
  ELSE IF checkStatus = "no-camera" THEN { "bypass", "reschedule" }
  ELSE {}

\* The buttons the JSX renders (lines 404-508): 'Continue to Interview' on
\* success; on error 'Try Again', with 'Continue Without Camera' from the
\* third retry on; 'Continue Without Camera' with no camera
ButtonsOffered ==
  IF checkStatus = "success" THEN { "continue" }
  ELSE IF checkStatus = "error"
    THEN IF retryCount < 3 THEN { "retry" } ELSE { "bypass", "reschedule", "retry" }
  ELSE IF checkStatus = "no-camera" THEN { "bypass", "reschedule" }
  ELSE {}

\* performCameraCheck up to its first await (lines 210-216).  The function is
\* the one of the current render: its 2-second follow-up reads that render's
\* isActive.
performCameraCheck ==
  /\ checkStatus' = "checking"
  /\ errorMessage' = ""
  /\ checksMade' = checksMade + 1
  /\ checkCalls' = checkCalls \cup
       { [ check |-> checksMade + 1, await |-> "devices", isActive |-> isActive ] }

\* The mount effect (lines 206-208)
CheckMounts ==
  /\ ~checkMounted
  /\ checkMounted' = TRUE
  /\ performCameraCheck
  /\ UNCHANGED << retryCount, checkTimers, cameraReady, panelVars, scoreVars, cameraVars, hookVars, captureVars >>

\* performCameraCheck after enumerateDevices (lines 216-227, 241-257)
DevicesEnumerated ==
  \E c \in checkCalls, answer \in DeviceAnswers :
    /\ c.await = "devices"
    /\ IF answer = "noCamera"
         THEN /\ checkStatus' = "no-camera"
              /\ errorMessage' = "No camera detected on this device"
              /\ onCameraReady(FALSE, "performCameraCheck")
              /\ checkCalls' = checkCalls \ {c}
              /\ UNCHANGED cameraVars
       ELSE IF answer = "unavailable"
         THEN /\ checkStatus' = "error"
              /\ errorMessage' = CheckErrorMessage("TypeError")
              /\ onCameraReady(FALSE, "performCameraCheck")
              /\ checkCalls' = checkCalls \ {c}
              /\ UNCHANGED cameraVars
       ELSE /\ startCamera
            /\ checkCalls' = (checkCalls \ {c}) \cup
                 { [ check |-> c.check, await |-> "startCamera", isActive |-> c.isActive,
                     camera |-> cameraCallsMade + 1 ] }
            /\ UNCHANGED << checkStatus, errorMessage, cameraReady >>
    /\ UNCHANGED << retryCount, checkMounted, checksMade, checkTimers, panelVars, scoreVars,
                    hookVars, captureVars >>

\* performCameraCheck after `await startCamera()` (lines 227-257): the
\* 2-second follow-up is set, or the error startCamera threw (an Error made
\* from the hook's message, useCamera.ts line 87) is caught
StartCameraSettled ==
  \E c \in checkCalls :
    /\ c.await = "startCamera"
    /\ \A k \in cameraCalls : k.call # c.camera
    /\ checkCalls' = checkCalls \ {c}
    /\ IF lastCamera.op = "startCamera rejected"
         THEN /\ checkStatus' = "error"
              /\ errorMessage' = CheckErrorMessage("Error")
              /\ onCameraReady(FALSE, "performCameraCheck")
              /\ UNCHANGED checkTimers
         ELSE /\ checkTimers' = checkTimers \cup
                   { [ check |-> c.check, isActive |-> c.isActive ] }
              /\ UNCHANGED << checkStatus, errorMessage, cameraReady >>
    /\ UNCHANGED << retryCount, checkMounted, checksMade, panelVars, scoreVars, cameraVars, hookVars, captureVars >>

\* The 2-second follow-up (lines 230-239)
CheckTimeoutFires ==
  \E t \in checkTimers :
    /\ checkTimers' = checkTimers \ {t}
    /\ IF t.isActive
         THEN /\ checkStatus' = "checking"
              /\ UNCHANGED << errorMessage, cameraReady >>
         ELSE /\ checkStatus' = "error"
              /\ errorMessage' = "Camera failed to start properly"
              /\ onCameraReady(FALSE, "performCameraCheck")
    /\ UNCHANGED << retryCount, checkMounted, checksMade, checkCalls, panelVars, scoreVars, cameraVars,
                    hookVars, captureVars >>

\* handleRetry (lines 260-263), the 'Try Again' button
HandleRetry ==
  /\ "retry" \in ButtonsOffered
  /\ retryCount < MaxRetries
  /\ retryCount' = retryCount + 1
  /\ performCameraCheck
  /\ UNCHANGED << checkMounted, checkTimers, cameraReady, panelVars, scoreVars, cameraVars, hookVars, captureVars >>

\* handleProceedWithoutCamera (lines 265-267), the 'Continue Without Camera'
\* button
HandleProceedWithoutCamera ==
  /\ "bypass" \in ButtonsOffered
  /\ onCameraReady(TRUE, "handleProceedWithoutCamera")
  /\ UNCHANGED << checkStatus, errorMessage, retryCount, checkMounted, checksMade,
                  checkCalls, checkTimers, panelVars, scoreVars, cameraVars, hookVars, captureVars >>

\* The 'Continue to Interview' button (lines 418-423)
ContinueToInterview ==
  /\ "continue" \in ButtonsOffered
  /\ onCameraReady(TRUE, "continue")
  /\ UNCHANGED << checkStatus, errorMessage, retryCount, checkMounted, checksMade,
                  checkCalls, checkTimers, panelVars, scoreVars, cameraVars, hookVars, captureVars >>

\* In the self-test the camera never becomes active: the video element is
\* never mounted, so no detection runs and the status is never 'success'.
\* The detection timer (lines 165-181), detectFaces (lines 32-80) and
\* ContinueToInterview are therefore no steps of NextCheck.
CheckNeverActive ==
  /\ ~isActive
  /\ videoRef = "null"
  /\ checkStatus # "success"
  /\ "continue" \notin ButtonsOffered

NextCheck ==
  \/ CheckMounts
  \/ DevicesEnumerated
  \/ CameraGranted
  \/ CameraRefused
  \/ StartCameraSettled
  \/ CheckTimeoutFires
  \/ HandleRetry
  \/ HandleProceedWithoutCamera

SpecCheck == Init /\ [][NextCheck]_vars

(* -------------------------- InterviewAnalytics ------------------------ *)

\* polling intervals set in one run
MaxPollIntervals == 3

\* The sessionId prop
SessionIds == { "s1", "s2" }

\* The props the parent renders the panel with
PanelProps == [ sessionId : SessionIds, isVisible : BOOLEAN ]

\* JavaScript's undefined, for a field the body does not have
undefined == [ undefined |-> TRUE ]

\* The realTimeMetrics a body can carry
ReplyMetrics ==
  { [ currentEngagement |-> e, faceDetectionStatus |-> "detected", responseCount |-> e,
      averageResponseTime |-> 30 ] : e \in { 1, 2 } }

\* What the analytics endpoint answers a poll: a network error, a status
\* that is not OK, a body that does not parse, or a body with or without an
\* analytics list and with or without realTimeMetrics
PanelReplies ==
  { [ kind |-> "networkError" ], [ kind |-> "notOk" ], [ kind |-> "unparsable" ] }
  \cup
  { [ kind |-> "ok", analytics |-> a, realTimeMetrics |-> m ] :
      a \in { "undefined", "list" },
      m \in { undefined } \cup ReplyMetrics }

\* A cleanup that clears nothing (a mutant of AfterCleanup)
AfterCleanupKept == pollIntervals

\* The intervals left by the cleanup of the last effect (line 53), which
\* clears the interval that effect set, if it set one
AfterCleanup == { i \in pollIntervals : i.id # pollCleanup }

\* fetchAnalytics as the effect of the current render makes it (lines 32-47):
\* it requests the render's sessionId and falls back on the render's
\* realTimeMetrics
fetchAnalytics(props) ==
  [ sessionId |-> props.sessionId, realTimeMetrics |-> realTimeMetrics ]

\* The effect (lines 29-54) after a render with `props`, following the
\* cleanup of the previous effect when there was one: nothing while hidden,
\* otherwise an interval of fetchAnalytics and one call of it
PanelEffect(props, cleaned, op) ==
  IF ~props.isVisible
    THEN /\ pollIntervals' = cleaned
         /\ pollCleanup' = 0
         /\ lastPanel' = [ op |-> op, issued |-> 0 ]
         /\ UNCHANGED << pollIntervalsMade, pollRequests >>
    ELSE /\ pollIntervalsMade' = pollIntervalsMade + 1
         /\ pollIntervals' = cleaned \cup
              { [ id |-> pollIntervalsMade + 1, fetch |-> fetchAnalytics(props) ] }
         /\ pollCleanup' = pollIntervalsMade + 1
         /\ pollRequests' = pollRequests \cup { fetchAnalytics(props) }
         /\ lastPanel' = [ op |-> op, issued |-> 1 ]

\* The panel is mounted: the first render and its effect
PanelMounts ==
  \E props \in PanelProps :
    /\ ~panelMounted
    /\ lastPanel.op = "none"
    /\ panelMounted' = TRUE
    /\ isVisible' = props.isVisible
    /\ sessionId' = props.sessionId
    /\ PanelEffect(props, pollIntervals, "mount")
    /\ UNCHANGED << analyticsData, realTimeMetrics, checkVars, scoreVars, cameraVars, hookVars, captureVars >>

\* The parent renders the panel with other props: a dependency of the effect
\* changed (line 54), so its cleanup runs and then the effect
PropsChange ==
  \E props \in PanelProps :
    /\ panelMounted
    /\ pollIntervalsMade < MaxPollIntervals
    /\ << props.sessionId, props.isVisible >> # << sessionId, isVisible >>
    /\ isVisible' = props.isVisible
    /\ sessionId' = props.sessionId
    /\ PanelEffect(props, AfterCleanup, "props")
    /\ UNCHANGED << panelMounted, analyticsData, realTimeMetrics, checkVars, scoreVars, cameraVars,
                    hookVars, captureVars >>

\* The panel is unmounted: the cleanup of the last effect runs
PanelUnmounts ==
  /\ panelMounted
  /\ panelMounted' = FALSE
  /\ pollIntervals' = AfterCleanup
  /\ pollCleanup' = 0
  /\ lastPanel' = [ op |-> "unmount", issued |-> 0 ]
  /\ UNCHANGED << isVisible, sessionId, analyticsData, realTimeMetrics, pollIntervalsMade,
                  pollRequests, checkVars, scoreVars, cameraVars, hookVars, captureVars >>

\* A tick of a polling interval (line 50): fetchAnalytics of the effect that
\* set the interval
PollTick ==
  \E i \in pollIntervals :
    /\ pollRequests' = pollRequests \cup { i.fetch }
    /\ lastPanel' = [ op |-> "tick", issued |-> 1 ]
    /\ UNCHANGED << isVisible, sessionId, analyticsData, realTimeMetrics, panelMounted,
                    pollIntervals, pollIntervalsMade, pollCleanup, checkVars, scoreVars, cameraVars,
                    hookVars, captureVars >>

\* A failed poll that empties the list (a mutant of FailedPoll)
FailedPollCleared ==
  /\ analyticsData' = << >>
  /\ UNCHANGED realTimeMetrics

\* fetchAnalytics when the request fails, the status is not OK or the body
\* does not parse (lines 39, 44-46): the `if` is skipped or the catch block
\* logs the error; no state is set
FailedPoll == UNCHANGED << analyticsData, realTimeMetrics >>

\* fetchAnalytics after its request was answered (lines 39-46).  The state of
\* an unmounted panel is no longer set.
PollAnswered ==
  \E request \in pollRequests, reply \in PanelReplies :
    /\ pollRequests' = pollRequests \ {request}
    /\ lastPanel' = [ op |-> "answer", issued |-> 0, reply |-> reply, request |-> request ]
    /\ IF reply.kind = "ok" /\ panelMounted
         THEN /\ analyticsData' =
                   IF reply.analytics = "undefined" THEN << >> ELSE << reply.analytics >>
              /\ realTimeMetrics' =
                   IF reply.realTimeMetrics = undefined
                     THEN request.realTimeMetrics ELSE reply.realTimeMetrics
         ELSE FailedPoll
    /\ UNCHANGED << isVisible, sessionId, panelMounted, pollIntervals, pollIntervalsMade,
                    pollCleanup, checkVars, scoreVars, cameraVars, hookVars, captureVars >>

NextPanel ==
  \/ PanelMounts
  \/ PropsChange
  \/ PanelUnmounts
  \/ PollTick
  \/ PollAnswered

SpecPanel == Init /\ [][NextPanel]_vars

(* ----------------------- the scoring on its own ----------------------- *)

\* floor(Math.random() * 20): the least value, one in between, the greatest
Jitters == { 0, 7, 19 }

\* Answer lengths around the thresholds 100 and 200 (lines 257-258)
AnswerLengths == { 0, 100, 101, 200, 201 }

\* Numbers of distinct words of four letters or more around the threshold 10
\* (line 272)
KeywordCounts == { 0, 10, 11 }

\* Durations around the thresholds 30 and 180 (line 271)
Durations == { 0, 30, 31, 179, 180 }

\* The calls of submitResponse the scoring is followed on: whether the job
\* description has requirements, the answer, the duration, the random values
ScoreInputs ==
  [ requirements : { "given", "none" },
    sub : [ answer : { Answer(l, e, q, k, u) :
                         l \in AnswerLengths, e \in BOOLEAN, q \in BOOLEAN,
                         k \in BOOLEAN, u \in KeywordCounts },
            duration : Durations,
            audioBlob : { "undefined" },
            r1 : Jitters,
            r2 : Jitters,
            tone : { 1 } ] ]

\* The response submitResponse builds for an input of ScoreInputs
Scored(input) ==
  Response([ jobDescription |-> [ requirements |-> input.requirements ] ], "q", input.sub)

InitScoring ==
  /\ InitInterview
  /\ InitListen
  /\ InitCamera
  /\ InitCapture
  /\ InitCheck
  /\ InitPanel
  /\ speechSupported = TRUE
  /\ recognitionSupported = TRUE
  /\ scoreInput \in ScoreInputs
  /\ scoreOutput = null

\* One submitResponse call, up to the response it builds (lines 244-291)
ScoreResponse ==
  /\ scoreOutput = null
  /\ scoreOutput' = Scored(scoreInput)
  /\ UNCHANGED << scoreInput, checkVars, panelVars, cameraVars, hookVars, captureVars >>

NextScoring == ScoreResponse

SpecScoring == InitScoring /\ [][NextScoring]_vars

(* ------------------------------- claims ------------------------------- *)

\* The same session before and after a step
SameSession ==
  /\ currentSession # null
  /\ currentSession' # null
  /\ currentSession'.id = currentSession.id

\* C1 (as claimed; SpecListen): for any sequence of startListening and
\* stopListening calls, at most one recorder that startListening started is
\* in flight (started and not stopped) at any time.
C1_AtMostOneRecordingInFlight ==
  Cardinality(InFlight) <= 1

\* C2 (as claimed; Spec): while a session's status stays 'in-progress', every
\* change of the session leaves its responses unchanged or extends them.
C2_ResponsesOnlyGrow ==
  [][ (SameSession /\ currentSession.status = "in-progress"
                   /\ currentSession'.status = "in-progress")
      => IsPrefix(currentSession.responses, currentSession'.responses) ]_vars

\* C3 (Spec): in every reachable state a session whose status is 'completed'
\* has a result that is not null, the persisted sessions included; later
\* submitResponse, nextQuestion, stopInterview and completeInterview calls
\* keep it so.
C3_CompletedHasResult ==
  /\ (currentSession # null /\ currentSession.status = "completed")
       => currentSession.result # null
  /\ \A i \in DOMAIN interviews :
       interviews[i].status = "completed" => interviews[i].result # null

\* C3 witness: a completed session on which submitResponse was called later
C3_CompletedThenSubmitted ==
  /\ currentSession # null
  /\ currentSession.status = "completed"
  /\ currentSession.result # null
  /\ ret.op = "submitResponse"
  /\ Len(currentSession.responses) > Len(currentSession.result.responses)

\* C4 (as claimed, for calls made from an up-to-date render; Spec): a
\* session's result goes from null to a value only in completeInterview, and
\* once set it is never replaced by a later call, a second completeInterview
\* included.
C4_ResultSetOnce ==
  [][ closure = Rendered
      => /\ (currentSession' # null /\ currentSession'.result # null
               /\ (currentSession = null \/ currentSession.result = null))
            => ret'.op = "completeInterview"
         /\ (SameSession /\ currentSession.result # null)
            => currentSession'.result = currentSession.result ]_vars

\* C5 (as claimed, for calls made from an up-to-date render; Spec): the only
\* status changes of one session are in-progress to stopped and in-progress
\* to completed.
C5_StatusLifecycle ==
  [][ (closure = Rendered /\ SameSession
         /\ currentSession'.status # currentSession.status)
      => /\ currentSession.status = "in-progress"
         /\ currentSession'.status \in {"stopped", "completed"} ]_vars

\* C6 (as claimed; Spec): the 'interviews' array changes only by a
\* completeInterview that returns a result, which appends one completed
\* session with its result and keeps the earlier entries; each session id
\* appears in the array at most once.
C6_PersistedOncePerSession ==
  [][ /\ interviews' # interviews
         => /\ ret'.op = "completeInterview"
            /\ ret'.value = "result"
            /\ Len(interviews') = Len(interviews) + 1
            /\ IsPrefix(interviews, interviews')
            /\ Last(interviews').status = "completed"
            /\ Last(interviews').result # null
            /\ Last(interviews').id = currentSession'.id
      /\ \A i, j \in DOMAIN interviews' :
           i # j => interviews'[i].id # interviews'[j].id ]_vars

\* The failures of the question request C7 names
C7_RequestFails(reply) ==
  \/ reply.net = "networkError"
  \/ ~reply.ok
  \/ reply.body = "notJson"
  \/ reply.kind \in {"missing", "notArray"}
  \/ \E i \in DOMAIN reply.questions : reply.questions[i] = "nonString"
  \/ reply.storage = "unparsable"

\* C7 (Spec): when the question request of a startInterview fails, the call
\* still resolves with an 'in-progress' session whose questions are the six
\* fallback questions, ids fallback-0 .. fallback-5, of the job description's
\* type.
C7_FallbackOnFailure ==
  (ret.op = "startInterview" /\ C7_RequestFails(ret.reply))
  => /\ currentSession # null
     /\ currentSession.status = "in-progress"
     /\ Len(currentSession.questions) = 6
     /\ \A i \in 1..6 :
          /\ currentSession.questions[i].id =
               << "fallback-0", "fallback-1", "fallback-2",
                  "fallback-3", "fallback-4", "fallback-5" >>[i]
          /\ currentSession.questions[i].type = currentSession.jobDescription.type

\* C7 witness: a startInterview resolved after a non-OK reply that carried
\* a questions list
C7_ResolvedAfterNonOkReply ==
  /\ ret.op = "startInterview"
  /\ ~ret.reply.ok
  /\ ret.reply.questions # << >>
  /\ currentSession # null
  /\ Len(currentSession.questions) = 6

\* C8 (as claimed; SpecCamera): after stopCamera, with no startCamera call in
\* flight, every stream an earlier startCamera obtained has its tracks
\* stopped, whether or not the video element was mounted when the call
\* resolved; isActive and faceDetected are false and error is null.
C8_StopCameraReleasesEveryStream ==
  (lastCamera.op = "stopCamera" /\ cameraCalls = {})
  => /\ \A stream \in DOMAIN streams : streams[stream] = "stopped"
     /\ ~isActive
     /\ ~faceDetected
     /\ error = "null"

\* C9 (as claimed; SpecCamera): while the camera is active, each tick of the
\* detection timer that has a frame posts it to the remote endpoint or runs
\* the client-side heuristic, and faceDetected is the outcome.
C9_EveryTickDetects ==
  (lastCamera.op = "tick" /\ lastCamera.active /\ lastCamera.env.frame)
  => /\ lastCamera.did \in {"backend", "client", "backend, client"}
     /\ faceDetected =
          IF lastCamera.enabled /\ lastCamera.env.backend # "failure"
            THEN lastCamera.env.backend = "faces"
            ELSE 100 * lastCamera.env.skinPixels > 2 * lastCamera.env.totalPixels

C11_ReadyOnlyAfterSuccessOrBypass ==
  /\ [][ (cameraReady' # cameraReady /\ cameraReady'.value)
         => \/ checkStatus' = "success"
            \/ cameraReady'.by = "continue" /\ checkStatus = "success"
            \/ /\ cameraReady'.by = "handleProceedWithoutCamera"
               /\ \/ checkStatus = "no-camera"
                  \/ checkStatus = "error" /\ retryCount >= 3 ]_vars
  /\ []( "bypass" \in ButtonsOffered
         => \/ checkStatus = "no-camera"
            \/ checkStatus = "error" /\ retryCount >= 3 )

\* C11 witness: the bypass was clicked in the error state after three retries
C11_BypassedAfterThreeRetries ==
  /\ cameraReady.by = "handleProceedWithoutCamera"
  /\ cameraReady.value
  /\ checkStatus = "error"
  /\ retryCount = 3

\* C12 (SpecPanel): while the panel is hidden or unmounted no request is
\* issued and no polling timer runs; when it becomes visible one request is
\* issued in the same step and a timer is set, and each tick of the timer
\* issues one request; at most one timer is active at any time, and it polls
\* the current sessionId (the previous timer is cleared when the panel is
\* hidden, unmounted or given another sessionId).
C12_PollsOnlyWhileVisible ==
  /\ []( /\ Cardinality(pollIntervals) <= 1
         /\ (~isVisible \/ ~panelMounted) => pollIntervals = {}
         /\ (isVisible /\ panelMounted) => Cardinality(pollIntervals) = 1
         /\ \A i \in pollIntervals : i.fetch.sessionId = sessionId )
  /\ [][ /\ (lastPanel' # lastPanel /\ lastPanel'.issued > 0)
            => isVisible' /\ panelMounted'
         /\ (~isVisible /\ ~isVisible') => pollRequests' \subseteq pollRequests
         /\ ((~isVisible \/ ~panelMounted) /\ isVisible' /\ panelMounted')
            => /\ lastPanel'.issued = 1
               /\ [ sessionId |-> sessionId', realTimeMetrics |-> realTimeMetrics ]
                    \in pollRequests'
         /\ (lastPanel'.op = "tick" /\ lastPanel' # lastPanel)
            => lastPanel'.issued = 1 /\ isVisible ]_vars

\* C12 witness: a visible panel whose sessionId changed, with its one timer
\* having ticked
C12_TickedAfterSessionChange ==
  /\ panelMounted
  /\ isVisible
  /\ pollIntervalsMade >= 2
  /\ sessionId = "s2"
  /\ lastPanel.op = "tick"
  /\ Cardinality(pollIntervals) = 1

\* C13 (as claimed; Spec): every submitResponse call made while a session
\* exists adds exactly one response at the end of the session's responses
\* and keeps the earlier ones in order, also when several calls are made
\* before the component re-renders.
C13_EverySubmitAppends ==
  [][ (SubmitResponse /\ currentSession # null /\ closure.currentSession # null)
      => /\ Len(currentSession'.responses) = Len(currentSession.responses) + 1
         /\ IsPrefix(currentSession.responses, currentSession'.responses) ]_vars

C15_PointerIsValidIndex ==
  currentSession # null
  => /\ 0 <= currentQuestionIndex
     /\ currentQuestionIndex < Len(currentSession.questions)
     /\ getCurrentQuestion # null
     /\ questionsRemaining >= 0
     /\ progress.den > 0
     /\ 0 < progress.num
     /\ progress.num <= 100 * progress.den

\* C16 (as claimed, for calls made from an up-to-date render; Spec): once a
\* session is 'stopped' or 'completed', submitResponse and nextQuestion leave
\* its responses and the question pointer unchanged, and the result of a
\* completed session holds the session's responses.
C16_FrozenAfterTheEnd ==
  /\ [][ ( /\ SubmitResponse \/ NextQuestion
           /\ closure = Rendered
           /\ currentSession # null
           /\ currentSession.status \in { "stopped", "completed" } )
         => /\ currentSession'.responses = currentSession.responses
            /\ currentQuestionIndex' = currentQuestionIndex ]_vars
  /\ []( (currentSession # null /\ currentSession.status = "completed")
         => currentSession.result.responses = currentSession.responses )

\* C17 (as claimed; Spec): every score of a result completeInterview
\* produced is an integer between 0 and 100: overallScore, the five category
\* scores and the four detailedAnalysis values.
C17_ScoresWithinHundred ==
  (currentSession # null /\ currentSession.result # null)
  => LET result == currentSession.result
     IN  /\ result.overallScore \in 0..100
         /\ \A c \in DOMAIN result.categoryScores : result.categoryScores[c] \in 0..100
         /\ \A d \in DOMAIN result.detailedAnalysis : result.detailedAnalysis[d] \in 0..100

\* The inputs with one bonus of `input` taken away
C18_WithOneBonusLess(input) ==
  { [input EXCEPT !.sub.answer.length = l] :
      l \in { x \in AnswerLengths : x <= input.sub.answer.length } }
  \cup
  { [input EXCEPT !.sub.answer.hasSpecificExamples = FALSE],
    [input EXCEPT !.sub.answer.hasQuantifiableResults = FALSE],
    [input EXCEPT !.sub.answer.matchesRequirements = FALSE],
    [input EXCEPT !.requirements = "none"],
    [input EXCEPT !.sub.answer.uniqueKeywords = 0],
    [input EXCEPT !.sub.duration = 0] }

\* C18 (SpecScoring): every response submitResponse builds has confidence in
\* 70..100, clarity in 75..100 and relevanceScore in 60..100; taking a bonus
\* away never raises a score; the duration bonus is given strictly between 30
\* and 180 seconds and the keyword bonus for more than 10 distinct keywords.
C18_ResponseScoresInRange ==
  scoreOutput # null
  => /\ scoreOutput.confidence \in 70..100
     /\ scoreOutput.clarity \in 75..100
     /\ scoreOutput.relevanceScore \in 60..100
     /\ \A less \in C18_WithOneBonusLess(scoreInput) :
          /\ Scored(less).confidence <= scoreOutput.confidence
          /\ Scored(less).clarity <= scoreOutput.clarity
          /\ Scored(less).relevanceScore <= scoreOutput.relevanceScore
     /\ scoreOutput.clarity =
          LET clarity ==
                scoreInput.sub.r2 + 75
                + (IF scoreInput.sub.duration \in 31..179 THEN 5 ELSE 0)
                + (IF scoreInput.sub.answer.uniqueKeywords >= 11 THEN 5 ELSE 0)
          IN  IF clarity > 100 THEN 100 ELSE clarity

\* C18 witness: a response whose confidence and clarity were capped at 100
C18_CappedResponse ==
  /\ scoreOutput # null
  /\ scoreInput.sub.r1 = 19
  /\ scoreInput.sub.r2 = 19
  /\ scoreInput.sub.answer.length = 201
  /\ scoreInput.sub.answer.hasSpecificExamples
  /\ scoreInput.sub.duration = 31
  /\ scoreInput.sub.answer.uniqueKeywords = 11
  /\ scoreOutput.confidence = 100
  /\ scoreOutput.clarity = 100

\* C19 (as claimed; Spec): in every reachable state of a session there are at
\* most as many responses as questions, and the completionRate of a result is
\* between 0 and 100.
C19_NoMoreResponsesThanQuestions ==
  currentSession # null
  => /\ Len(currentSession.responses) <= Len(currentSession.questions)
     /\ currentSession.result # null
        => /\ currentSession.result.completionRate.den > 0
           /\ currentSession.result.completionRate.num >= 0
           /\ currentSession.result.completionRate.num
                <= 100 * currentSession.result.completionRate.den

\* C20 (for calls made from an up-to-date render; Spec): completeInterview
\* with no session, or with a session without responses, returns null and
\* changes nothing (session, persisted interviews, bot, speech, timers,
\* pointer); so does stopInterview with no session.
C20_NothingToCompleteChangesNothing ==
  [][ /\ ( /\ CompleteInterview
           /\ closure = Rendered
           /\ currentSession = null \/ Len(currentSession.responses) = 0 )
         => /\ ret'.value = "null"
            /\ UNCHANGED << currentSession, currentQuestionIndex, interviews, aiBot,
                            utterances, timers, isRecording >>
      /\ (StopInterview /\ closure = Rendered /\ currentSession = null)
         => /\ ret'.value = "null"
            /\ UNCHANGED << currentSession, currentQuestionIndex, interviews, aiBot,
                            utterances, timers, isRecording >> ]_vars

\* C20 witness: completeInterview returned null for a session without
\* responses
C20_CompletedWithoutResponses ==
  /\ ret = [ op |-> "completeInterview", value |-> "null" ]
  /\ closure = Rendered
  /\ currentSession # null
  /\ currentSession.responses = << >>
  /\ currentSession.status = "in-progress"

\* C21 (as claimed; Spec): a stopInterview or completeInterview call that
\* stores a session changes only its status, duration, completedAt and
\* result: the stored session has the id, the questions and all the responses
\* of the session before the call, those submitted just before it without a
\* re-render included.
C21_EndKeepsTheSession ==
  [][ ( /\ StopInterview \/ CompleteInterview
        /\ currentSession # null
        /\ ret'.value \in { "session", "result" } )
      => /\ currentSession'.id = currentSession.id
         /\ currentSession'.questions = currentSession.questions
         /\ currentSession'.responses = currentSession.responses
         /\ currentSession'.jobDescription = currentSession.jobDescription
         /\ currentSession'.studentInfo = currentSession.studentInfo
         /\ currentSession'.userId = currentSession.userId ]_vars

\* C22 (SpecListen): in every reachable state aiBot.isListening equals
\* isRecording; both become true only in the step of startListening that
\* obtained the microphone and started the recorder, a stopListening of the
\* current render during a recording sets both false, and a refused
\* microphone changes neither and ends in an alert, not in a rejection.
C22_ListeningIsRecording ==
  /\ [](aiBot.isListening = isRecording)
  /\ [][ /\ (isRecording' /\ ~isRecording)
            => /\ ret' = [ op |-> "startListening", value |-> "started" ]
               /\ mediaRecorderRef' # 0
               /\ recorders'[mediaRecorderRef'] = "recording"
               /\ aiBot'.isListening
         /\ MicrophoneGranted => (isRecording' /\ aiBot'.isListening)
         /\ (StopListening /\ closure = Rendered /\ isRecording)
            => (~isRecording' /\ ~aiBot'.isListening)
         /\ MicrophoneRefused
            => /\ ret'.value = "alert"
               /\ UNCHANGED << isRecording, aiBot >> ]_vars

\* C22 witness: a recording was started and then stopped
C22_StartedThenStopped ==
  /\ ret = [ op |-> "stopListening", value |-> "stopped" ]
  /\ ~isRecording
  /\ ~aiBot.isListening
  /\ InFlight = {}
  /\ Len(recorders) = 1

\* C23 (SpecListen): in every reachable state of the bot isSpeaking and
\* isWaitingForResponse are not both true; speak sets isSpeaking true and
\* isWaitingForResponse false, the end of an utterance sets isSpeaking false
\* and isWaitingForResponse true, and a startListening that started a
\* recording and a stopListening that stopped one set isWaitingForResponse
\* false.
C23_NeverSpeakingAndWaiting ==
  /\ [](~(aiBot.isSpeaking /\ aiBot.isWaitingForResponse))
  /\ [][ /\ (SpeakCalled /\ speechSupported)
            => (aiBot'.isSpeaking /\ ~aiBot'.isWaitingForResponse)
         /\ UtteranceEnd => (~aiBot'.isSpeaking /\ aiBot'.isWaitingForResponse)
         /\ MicrophoneGranted => ~aiBot'.isWaitingForResponse
         /\ (StopListening /\ isRecording' # isRecording) => ~aiBot'.isWaitingForResponse
       ]_vars

\* C23 witness: speak was called and its utterance has ended
C23_UtteranceEnded ==
  /\ ret.op = "speak"
  /\ ~aiBot.isSpeaking
  /\ aiBot.isWaitingForResponse
  /\ aiBot.message = << "spoken" >>
  /\ utterances = 0

\* C24: after stopCamera no detection tick runs any more: while stopCamera is
\* the last call made on the hook no detection interval exists, the one
\* stopCamera cleared included and none set afterwards by the 1-second
\* timeout of an earlier startCamera; and there is never more than one
\* detection interval.
C24_NoIntervalAfterStopCamera ==
  /\ Cardinality(intervals) <= 1
  /\ lastCamera.op = "stopCamera" => intervals = {}

C26_FailureSetsError ==
  [][ /\ CameraRefused
        => /\ SubSeq(error', 1, 25) = "Unable to access camera. "
           /\ Len(error') > 25
           /\ lastCamera'.op = "startCamera rejected"
           /\ lastCamera'.message = error'
           /\ UNCHANGED << isActive, detectTimers, intervals >>
           /\ (streams = << >> => ~isActive')
      /\ StartCamera => error' = "null" ]_vars

\* A startCamera call was refused because the camera is in use
C26_RefusedInUse ==
  /\ lastCamera.op = "startCamera rejected"
  /\ lastCamera.name = "NotReadableError"
  /\ error = "Unable to access camera. Camera is being used by another application."
  /\ lastCamera.message = error
  /\ ~isActive
  /\ detectTimers = 0
  /\ intervals = {}

\* C27 (as claimed; SpecCheck): a camera check whose startCamera failed ends
\* in status 'error' with the message for the cause of the failure, 'Camera
\* access was denied. Please allow camera permissions and try again.' for
\* NotAllowedError, the no-camera-found message for NotFoundError, the
\* camera-in-use message for NotReadableError and the generic message
\* otherwise, and calls onCameraReady(false).
C27_MessageNamesTheCause ==
  [][ (StartCameraSettled /\ lastCamera.op = "startCamera rejected")
        => /\ checkStatus' = "error"
           /\ errorMessage' = CheckErrorMessage(lastCamera.name)
           /\ lastCamera.name = "NotAllowedError"
                => errorMessage' =
                     "Camera access was denied. Please allow camera permissions and try again."
           /\ cameraReady'.value = FALSE
           /\ cameraReady'.by = "performCameraCheck" ]_vars

C30_CaptureEndsAndPhotoStays ==
  /\ [][ (CapturePhoto /\ ~isActive) => UNCHANGED << captureVars, cameraVars >> ]_vars
  /\ [][ (capturedPhoto # "null" /\ capturedPhoto' = "null") => RetakePhoto ]_vars
  /\ (isCapturing /\ flashEffect) ~> (~isCapturing /\ ~flashEffect)

\* C31 (SpecPanel): a poll that fails (a network error, a body that does not
\* parse) or is answered with a status that is not OK leaves analyticsData and
\* realTimeMetrics unchanged and leaves the panel and its polling timer as
\* they are, so a visible panel still has its timer for the next tick.
C31_FailedPollChangesNothing ==
  [][ (PollAnswered /\ lastPanel'.reply.kind # "ok")
        => /\ UNCHANGED << analyticsData, realTimeMetrics >>
           /\ UNCHANGED << isVisible, sessionId, panelMounted, pollIntervals, pollCleanup >>
           /\ (isVisible' /\ panelMounted') => Cardinality(pollIntervals') = 1 ]_vars

\* A visible panel that shows data of an earlier poll has had a poll whose
\* body did not parse, and its timer is still set
C31_UnparsableAfterData ==
  /\ lastPanel.op = "answer"
  /\ lastPanel.reply.kind = "unparsable"
  /\ analyticsData # << >>
  /\ realTimeMetrics \in ReplyMetrics
  /\ panelMounted
  /\ isVisible
  /\ Cardinality(pollIntervals) = 1

\* C32 (as claimed; SpecPanel): a successful poll of the mounted panel whose
\* body has no realTimeMetrics leaves realTimeMetrics as it is displayed, and
\* one whose body has no analytics list sets analyticsData to the empty list.
C32_MissingFieldsKeepMetrics ==
  [][ (PollAnswered /\ lastPanel'.reply.kind = "ok" /\ panelMounted)
        => /\ lastPanel'.reply.realTimeMetrics = undefined
                => realTimeMetrics' = realTimeMetrics
           /\ lastPanel'.reply.analytics = "undefined" => analyticsData' = << >> ]_vars

====
